---- MODULE Spec2Model ----
(***************************************************************************)
(* Model of mwalmsley/bajor:                                               *)
(*   src/azure/batch/scripts/predict_on_catalog.py                         *)
(*     - requests_retry_session / PredictionGalaxyDataset.__getitem__      *)
(*       (specification SpecGetItem: one dataset access, step by step)     *)
(*     - predict (specification SpecPredict: the batch pipeline)           *)
(*     - predictions_to_expectation_of_answer (specification SpecStats)    *)
(*   src/bajor/main.py                                                     *)
(*     - validate_basic_auth / schedule_job (specification SpecAuth)       *)
(***************************************************************************)
EXTENDS Integers, Sequences, FiniteSets, TLC

VARIABLES
    \* ---- PredictionGalaxyDataset.__getitem__ (one access) ----
    gpc,            \* position inside __getitem__
    url,            \* galaxy['image_url']
    has_transform,  \* whether self.transform is set
    retry,          \* the urllib3 Retry object carried by the adapter
    sent,           \* outcome of every request put on the wire, in order
    response,       \* the response returned by session.get()
    url_mime_type,  \* response.headers['content-type']
    decoder,        \* which decoder ran
    image,          \* the decoded image
    exc,            \* the exception in flight inside the try block
    raised,         \* the exception that left __getitem__
    returned,       \* the (image, label) pair returned
    log,            \* records emitted through the logging module
    \* ---- predict ----
    pc,             \* position inside predict
    catalog,        \* predict's catalog argument (rows in order)
    n_samples,      \* predict's n_samples argument
    save_loc,       \* predict's save_loc argument
    batch_size,     \* datamodule_kwargs['batch_size']
    image_id_strs,  \* list(catalog['subject_id'])
    fetched,        \* per catalog row: what the loader worker's access gave
    out_of_order,   \* whether some access finished before one of an earlier row
    predictions,    \* trainer.predict's list of per-batch outputs, then the stacked tensor
    stacked,        \* the (n_galaxies, n_answers, n_samples) array of line 145
    n_predict,      \* number of trainer.predict calls made
    error,          \* the exception predict ended with
    writes,         \* serializer invocations, in order
    warnings,       \* logging.warning records of predict
    \* ---- predictions_to_expectation_of_answer ----
    spc, st_predictions, question_indices, answer_index, expectations,
    \* ---- bajor.main ----
    apc, environ, credentials, job, authorized, http_response

getitem_vars == <<gpc, url, has_transform, retry, sent, response, url_mime_type,
                  decoder, image, exc, raised, returned, log>>
predict_vars == <<pc, catalog, n_samples, save_loc, batch_size, image_id_strs,
                  fetched, out_of_order, predictions, stacked, n_predict, error, writes, warnings>>
stats_vars   == <<spc, st_predictions, question_indices, answer_index, expectations>>
auth_vars    == <<apc, environ, credentials, job, authorized, http_response>>
vars == <<getitem_vars, predict_vars, stats_vars, auth_vars>>

(***************************************************************************)
(* requests_retry_session (predict_on_catalog.py:22-36)                    *)
(***************************************************************************)

\* default of the `retries` parameter
retries == 3

RetryShort(n) == [total |-> n - 1, read |-> n, connect |-> n]

\* Retry(total=retries, read=retries, connect=retries, backoff_factor=...):
\* no status_forcelist is given, so it is empty; respect_retry_after_header
\* keeps urllib3's default (True).
Retry(n) == [total |-> n, read |-> n, connect |-> n]

\* status_forcelist is commented out in the source: the empty set
status_forcelist == {}

\* urllib3 Retry.RETRY_AFTER_STATUS_CODES, honoured because
\* respect_retry_after_header is left at its default
RETRY_AFTER_STATUS_CODES == {413, 429, 503}

\* urllib3 Retry.is_retry(method, status_code, has_retry_after) for a GET
is_retry(r, status, has_retry_after) ==
    \/ status \in status_forcelist
    \/ (r.total # 0 /\ has_retry_after /\ status \in RETRY_AFTER_STATUS_CODES)

\* urllib3 Retry.increment: total always drops by one; connect / read drop
\* with the matching kind of error; a retried response touches only total
\* (Retry.status is None)
increment(r, kind) ==
    [total   |-> r.total - 1,
     connect |-> IF kind = "connect_error" THEN r.connect - 1 ELSE r.connect,
     read    |-> IF kind = "read_error" THEN r.read - 1 ELSE r.read]

\* urllib3 Retry.is_exhausted: some counter fell below zero
is_exhausted(r) == r.total < 0 \/ r.connect < 0 \/ r.read < 0

TransientErrors == {"connect_error", "read_error"}

\* what the network can answer to one request: a transient failure, or a
\* response (error pages carry no image)
Statuses == {200, 404, 500, 503}
ContentTypes == {"image/png", "image/jpeg", "IMAGE/PNG", "image/png; charset=binary"}
Bodies == {"png", "jpeg", "corrupt", "truncated_png"}
HeaderSets == {[h \in {} |-> ""]}
              \cup {[h \in {"content-type"} |-> c] : c \in ContentTypes}
              \cup {[h \in {"retry-after"} |-> "1"]}
              \cup {[h \in {"content-type", "retry-after"} |->
                        IF h = "content-type" THEN "image/png" ELSE "1"]}
Responses == {r \in [kind : {"response"}, status : Statuses, headers : HeaderSets, body : Bodies] :
                 r.status # 200 => r.body = "corrupt"}
NoResponse == [kind |-> "none", status |-> 0, headers |-> [h \in {} |-> ""], body |-> "corrupt"]
Urls == {"https://host/a.png", "https://host/b.jpg"}

NoExc == [type |-> "None", at |-> "None"]
Exc(type, at) == [type |-> type, at |-> at]
NoImage == [src |-> "none", format |-> "none", loaded |-> FALSE]
NoPair == [image |-> NoImage, label |-> <<"none">>]

\* one entry of `sent`: what the request met on the wire
Wire(kind, status) == [kind |-> kind, status |-> status]

\* bool(response.headers.get("Retry-After")) in urllib3's urlopen
has_retry_after(r) == "retry-after" \in DOMAIN r.headers

\* response.raise_for_status(): 4xx and 5xx raise HTTPError
IsErrorStatus(status) == status >= 400 /\ status < 600

IsPngLoose(mime) == mime \in {"image/png", "IMAGE/PNG", "image/png; charset=binary"}

\* line 65: url_mime_type == 'image/png'
IsPng(mime) == mime = "image/png"

\* line 67: Image.open(response.raw) identifies the file from its header
\* and defers reading the pixel data until the image is first used
ImageOpen(u, body) ==
    IF body \in {"png", "jpeg", "truncated_png"}
    THEN [ok |-> TRUE, image |-> [src |-> u, format |-> body, loaded |-> FALSE], exc |-> NoExc]
    ELSE [ok |-> FALSE, image |-> NoImage, exc |-> Exc("UnidentifiedImageError", "decode")]

\* lines 70-71: Image.fromarray(decode_jpeg(response.raw.read())) decodes
\* the whole buffer at once and accepts JPEG data only
DecodeJpeg(u, body) ==
    IF body = "jpeg"
    THEN [ok |-> TRUE, image |-> [src |-> u, format |-> body, loaded |-> TRUE], exc |-> NoExc]
    ELSE [ok |-> FALSE, image |-> NoImage, exc |-> Exc("DecodeError", "decode")]

\* lines 65-71: the two-way dispatch
Decode(u, mime, body) ==
    IF IsPng(mime) THEN ImageOpen(u, body) ELSE DecodeJpeg(u, body)

DecoderName(mime) == IF IsPng(mime) THEN "Image.open" ELSE "decode_jpeg"

\* line 74: logging.critical('Cannot load {}'.format(url))
CriticalRecord(u) == [level |-> "CRITICAL", msg |-> "Cannot load", url |-> u]
\* line 57: logging.debug('Downloading url: {}'.format(url))
DebugRecord(u) == [level |-> "DEBUG", msg |-> "Downloading url", url |-> u]

Wrapped(e) == Exc("RuntimeError", e.at)

\* line 76: raise e  (the caught object itself)
Reraised(e) == e

GetItemOnly == UNCHANGED <<predict_vars, stats_vars, auth_vars>>

\* state after construction of the dataset, before an access
GetItemIdle ==
    /\ gpc = "idle" /\ url = "none" /\ has_transform = FALSE
    /\ retry = Retry(0) /\ sent = <<>> /\ response = NoResponse
    /\ url_mime_type = "none" /\ decoder = "none" /\ image = NoImage
    /\ exc = NoExc /\ raised = NoExc /\ returned = NoPair /\ log = <<>>

InitGetItem ==
    /\ gpc = "start"
    /\ url \in Urls
    /\ has_transform \in BOOLEAN
    /\ retry = Retry(0) /\ sent = <<>> /\ response = NoResponse
    /\ url_mime_type = "none" /\ decoder = "none" /\ image = NoImage
    /\ exc = NoExc /\ raised = NoExc /\ returned = NoPair /\ log = <<>>

\* lines 48-59: look the row up, log, build the retrying session
Enter ==
    /\ gpc = "start"
    /\ log' = Append(log, DebugRecord(url))
    /\ retry' = Retry(retries)
    /\ gpc' = "get"
    /\ UNCHANGED <<url, has_transform, sent, response, url_mime_type, decoder,
                   image, exc, raised, returned>>
    /\ GetItemOnly

\* line 59, inside session.get: the request fails in transit; the adapter
\* retries it unless the Retry object is exhausted
SendError(kind) ==
    /\ gpc = "get"
    /\ kind \in TransientErrors
    /\ sent' = Append(sent, Wire(kind, 0))
    /\ retry' = increment(retry, kind)
    /\ IF is_exhausted(retry')
       THEN /\ exc' = Exc("ConnectionError", "get")
            /\ gpc' = "except"
       ELSE /\ exc' = exc
            /\ gpc' = "get"
    /\ UNCHANGED <<url, has_transform, response, url_mime_type, decoder, image,
                   raised, returned, log>>
    /\ GetItemOnly

\* line 59, inside session.get: a response arrives that Retry.is_retry asks
\* to retry
SendRetried(r) ==
    /\ gpc = "get"
    /\ r \in Responses
    /\ is_retry(retry, r.status, has_retry_after(r))
    /\ sent' = Append(sent, Wire("retried_response", r.status))
    /\ retry' = increment(retry, "response")
    /\ IF is_exhausted(retry')
       THEN /\ exc' = Exc("RetryError", "get")
            /\ gpc' = "except"
       ELSE /\ exc' = exc
            /\ gpc' = "get"
    /\ UNCHANGED <<url, has_transform, response, url_mime_type, decoder, image,
                   raised, returned, log>>
    /\ GetItemOnly

\* line 59: session.get returns the response
SendResponse(r) ==
    /\ gpc = "get"
    /\ r \in Responses
    /\ ~is_retry(retry, r.status, has_retry_after(r))
    /\ sent' = Append(sent, Wire("response", r.status))
    /\ response' = r
    /\ gpc' = "raise_for_status"
    /\ UNCHANGED <<url, has_transform, retry, url_mime_type, decoder, image,
                   exc, raised, returned, log>>
    /\ GetItemOnly

\* line 62: response.raise_for_status()
RaiseForStatus ==
    /\ gpc = "raise_for_status"
    /\ IF IsErrorStatus(response.status)
       THEN /\ exc' = Exc("HTTPError", "raise_for_status")
            /\ gpc' = "except"
       ELSE /\ exc' = exc
            /\ gpc' = "content_type"
    /\ UNCHANGED <<url, has_transform, retry, sent, response, url_mime_type,
                   decoder, image, raised, returned, log>>
    /\ GetItemOnly

\* line 63: url_mime_type = response.headers['content-type']
ContentType ==
    /\ gpc = "content_type"
    /\ IF "content-type" \in DOMAIN response.headers
       THEN /\ url_mime_type' = response.headers["content-type"]
            /\ exc' = exc
            /\ gpc' = "decode"
       ELSE /\ url_mime_type' = url_mime_type
            /\ exc' = Exc("KeyError", "content_type")
            /\ gpc' = "except"
    /\ UNCHANGED <<url, has_transform, retry, sent, response, decoder, image,
                   raised, returned, log>>
    /\ GetItemOnly

\* lines 65-71: decode with the decoder the content type selects
DecodeStep ==
    /\ gpc = "decode"
    /\ decoder' = DecoderName(url_mime_type)
    /\ LET d == Decode(url, url_mime_type, response.body)
       IN IF d.ok
          THEN /\ image' = d.image
               /\ exc' = exc
               /\ gpc' = "transform"
          ELSE /\ image' = image
               /\ exc' = d.exc
               /\ gpc' = "except"
    /\ UNCHANGED <<url, has_transform, retry, sent, response, url_mime_type,
                   raised, returned, log>>
    /\ GetItemOnly

\* lines 72-74: except Exception as e: logging.critical(...)
Except ==
    /\ gpc = "except"
    /\ log' = Append(log, CriticalRecord(url))
    /\ gpc' = "reraise"
    /\ UNCHANGED <<url, has_transform, retry, sent, response, url_mime_type,
                   decoder, image, exc, raised, returned>>
    /\ GetItemOnly

\* line 76: raise e
Reraise ==
    /\ gpc = "reraise"
    /\ raised' = Reraised(exc)
    /\ gpc' = "raised"
    /\ UNCHANGED <<url, has_transform, retry, sent, response, url_mime_type,
                   decoder, image, exc, returned, log>>
    /\ GetItemOnly

\* lines 79-91: label = [], the optional transform (the first use of a
\* lazily opened image reads its pixel data here, outside the try block),
\* return (image, label)
TransformReturn ==
    /\ gpc = "transform"
    /\ IF has_transform /\ ~image.loaded /\ image.format = "truncated_png"
       THEN /\ raised' = Exc("OSError", "transform")
            /\ gpc' = "raised"
            /\ UNCHANGED <<image, returned>>
       ELSE /\ image' = IF has_transform THEN [image EXCEPT !.loaded = TRUE] ELSE image
            /\ returned' = [image |-> image', label |-> <<>>]
            /\ gpc' = "returned"
            /\ raised' = raised
    /\ UNCHANGED <<url, has_transform, retry, sent, response, url_mime_type,
                   decoder, exc, log>>
    /\ GetItemOnly

(***************************************************************************)
(* predict (predict_on_catalog.py:103-162)                                 *)
(***************************************************************************)

MaxRows == 3
MaxSamples == 2
MaxBatch == 2
NAnswers == 2

\* subject ids are opaque and unique; the image of subject n is served at
\* its own URL
Subjects == {100 + n : n \in 1..MaxRows}
UrlOf(id) == <<"https://host/", id, ".jpg">>
\* the pixel content served at each URL (a per-row marker)
Pixels(u) == u[2] - 100

Row(id) == [subject_id |-> id, image_url |-> UrlOf(id)]
Catalogs == UNION {{[i \in 1..n |-> Row(f[i])] :
                      f \in {g \in [1..n -> Subjects] : \A i, j \in 1..n : g[i] = g[j] => i = j}} :
                   n \in 0..MaxRows}

\* save_loc values, as character sequences
SaveLocs == { <<"o", ".", "c", "s", "v">>,
              <<"o", ".", "h", "d", "f", "5">>,
              <<"o", ".", "t", "x", "t">>,
              <<"o", ".", "c", "s", "v", ".", "h", "d", "f", "5">>,
              <<"c", "s", "v">>,
              <<"o", ".", "C", "S", "V">> }

\* str.endswith
EndsWith(s, suffix) ==
    /\ Len(s) >= Len(suffix)
    /\ SubSeq(s, Len(s) - Len(suffix) + 1, Len(s)) = suffix

Contains(s, suffix) ==
    \E i \in 1..Len(s) : i + Len(suffix) - 1 <= Len(s) /\ SubSeq(s, i, i + Len(suffix) - 1) = suffix

\* line 105: image_id_strs = list(catalog['subject_id'])
IdList(cat) == [i \in 1..Len(cat) |-> cat[i].subject_id]

\* the opaque model: one row of NAnswers concentrations per image
ModelOutput(img) == [a \in 1..NAnswers |-> 10 * Pixels(img) + a]

NoUrl == <<"none", 0, "">>
Pending == [kind |-> "pending", image |-> NoUrl, exc |-> "None"]
AccessOk(u) == [kind |-> "ok", image |-> u, exc |-> "None"]
AccessRaise(e) == [kind |-> "raise", image |-> NoUrl, exc |-> e]
AccessErrors == {"HTTPError", "ConnectionError"}

\* number of batches of the predict dataloader (no shuffle, no drop_last)
NBatches(n, bs) == (n + bs - 1) \div bs
BatchOf(i, bs) == ((i - 1) \div bs) + 1
BatchRows(b, n, bs) == {i \in 1..n : BatchOf(i, bs) = b}
RowSeq(b, n, bs) == [j \in 1..Cardinality(BatchRows(b, n, bs)) |-> (b - 1) * bs + j]

RECURSIVE ConcatReversed(_)
ConcatReversed(batches) ==
    IF batches = <<>> THEN <<>> ELSE ConcatReversed(Tail(batches)) \o Head(batches)

\* torch.concat(predictions, dim=0)
RECURSIVE Concat(_)
Concat(batches) ==
    IF batches = <<>> THEN <<>> ELSE Head(batches) \o Concat(Tail(batches))

StackFresh(mats) ==
    [i \in 1..Len(mats[1]) |->
        [a \in 1..Len(mats[1][i]) |->
            [k \in 1..Len(mats) |-> mats[k][i][a] + 100 * (k - 1)]]]

\* torch.stack(list, dim=2) of equally shaped 2-d tensors
Stack(mats) ==
    [i \in 1..Len(mats[1]) |->
        [a \in 1..Len(mats[1][i]) |->
            [k \in 1..Len(mats) |-> mats[k][i][a]]]]

WriterBySubstring(loc) ==
    IF Contains(loc, <<".", "c", "s", "v">>) THEN "predictions_to_csv"
    ELSE IF Contains(loc, <<".", "h", "d", "f", "5">>) THEN "predictions_to_hdf5"
    ELSE "predictions_to_csv"

\* lines 150-156: which writer the suffix of save_loc selects
Writer(loc) ==
    IF EndsWith(loc, <<".", "c", "s", "v">>) THEN "predictions_to_csv"
    ELSE IF EndsWith(loc, <<".", "h", "d", "f", "5">>) THEN "predictions_to_hdf5"
    ELSE "predictions_to_csv"

\* line 155: the warning of the else branch
Warns(loc) ==
    ~EndsWith(loc, <<".", "c", "s", "v">>) /\ ~EndsWith(loc, <<".", "h", "d", "f", "5">>)

PredictOnly == UNCHANGED <<getitem_vars, stats_vars, auth_vars>>

PredictIdle ==
    /\ pc = "idle" /\ catalog = <<>> /\ n_samples = 0 /\ save_loc = <<>>
    /\ batch_size = 1 /\ image_id_strs = <<>> /\ fetched = <<>> /\ out_of_order = FALSE
    /\ predictions = <<>> /\ stacked = <<>> /\ n_predict = 0
    /\ error = "None" /\ writes = <<>> /\ warnings = <<>>

InitPredict ==
    /\ pc = "start"
    /\ catalog \in Catalogs
    /\ n_samples \in 0..MaxSamples
    /\ save_loc \in SaveLocs
    /\ batch_size \in 1..MaxBatch
    /\ image_id_strs = <<>> /\ fetched = <<>> /\ out_of_order = FALSE
    /\ predictions = <<>> /\ stacked = <<>> /\ n_predict = 0
    /\ error = "None" /\ writes = <<>> /\ warnings = <<>>

\* lines 105-139: take the ids, set the datamodule up for the predict stage,
\* build the trainer and call trainer.predict
Begin ==
    /\ pc = "start"
    /\ image_id_strs' = IdList(catalog)
    /\ fetched' = [i \in 1..Len(catalog) |-> Pending]
    /\ n_predict' = n_predict + 1
    /\ pc' = "predict"
    /\ UNCHANGED <<catalog, n_samples, save_loc, batch_size, out_of_order, predictions,
                   stacked, error, writes, warnings>>
    /\ PredictOnly

\* line 139, inside trainer.predict: a loader worker runs the dataset access
\* for one row of a batch it holds (PredictionGalaxyDataset.__getitem__,
\* abstracted to its outcome); a worker goes through its batch in row order
\* and stops at the first access that raises; batches advance independently
AccessRow(i, out) ==
    /\ pc = "predict"
    /\ i \in 1..Len(catalog)
    /\ fetched[i].kind = "pending"
    /\ \A j \in BatchRows(BatchOf(i, batch_size), Len(catalog), batch_size) :
          j < i => fetched[j].kind = "ok"
    /\ fetched' = [fetched EXCEPT ![i] =
                      IF out = "ok" THEN AccessOk(catalog[i].image_url) ELSE AccessRaise(out)]
    /\ out_of_order' = (out_of_order \/ \E j \in 1..(i - 1) : fetched[j].kind = "pending")
    /\ UNCHANGED <<pc, catalog, n_samples, save_loc, batch_size, image_id_strs,
                   predictions, stacked, n_predict, error, writes, warnings>>
    /\ PredictOnly

BatchSkipFailed(b) ==
    LET rows == RowSeq(b, Len(catalog), batch_size)
        good == SelectSeq(rows, LAMBDA i : fetched[i].kind = "ok")
    IN [ok |-> TRUE, exc |-> "None",
        out |-> [j \in 1..Len(good) |-> ModelOutput(fetched[good[j]].image)]]

\* line 139, inside trainer.predict: what the loop gets for batch b once its
\* worker is through: the model's output for its rows in row order, or the
\* exception of the failed access, re-raised in the main process
BatchResult(b) ==
    LET rows == RowSeq(b, Len(catalog), batch_size)
        bad == {i \in BatchRows(b, Len(catalog), batch_size) : fetched[i].kind = "raise"}
    IN IF bad # {}
       THEN [ok |-> FALSE, exc |-> fetched[CHOOSE i \in bad : TRUE].exc, out |-> <<>>]
       ELSE [ok |-> TRUE, exc |-> "None",
             out |-> [j \in 1..Len(rows) |-> ModelOutput(fetched[rows[j]].image)]]

BatchComplete(b) ==
    LET rows == BatchRows(b, Len(catalog), batch_size)
    IN \/ \A i \in rows : fetched[i].kind = "ok"
       \/ \E i \in rows : fetched[i].kind = "raise"

\* line 139, inside trainer.predict: the loop takes the batches in index
\* order and appends the model's output for the next one
PredictStep ==
    /\ pc = "predict"
    /\ Len(predictions) < NBatches(Len(catalog), batch_size)
    /\ BatchComplete(Len(predictions) + 1)
    /\ BatchResult(Len(predictions) + 1).ok
    /\ predictions' = Append(predictions, BatchResult(Len(predictions) + 1).out)
    /\ UNCHANGED <<pc, catalog, n_samples, save_loc, batch_size, image_id_strs,
                   fetched, out_of_order, stacked, n_predict, error, writes, warnings>>
    /\ PredictOnly

\* line 139: the exception of a failed access leaves trainer.predict and
\* predict, which has no handler
PredictAbort ==
    /\ pc = "predict"
    /\ Len(predictions) < NBatches(Len(catalog), batch_size)
    /\ BatchComplete(Len(predictions) + 1)
    /\ ~BatchResult(Len(predictions) + 1).ok
    /\ error' = BatchResult(Len(predictions) + 1).exc
    /\ pc' = "aborted"
    /\ UNCHANGED <<catalog, n_samples, save_loc, batch_size, image_id_strs,
                   fetched, out_of_order, predictions, stacked, n_predict, writes, warnings>>
    /\ PredictOnly

\* lines 139-140: trainer.predict returns the list of per-batch outputs
PredictReturn ==
    /\ pc = "predict"
    /\ Len(predictions) = NBatches(Len(catalog), batch_size)
    /\ pc' = "stack"
    /\ UNCHANGED <<catalog, n_samples, save_loc, batch_size, image_id_strs,
                   fetched, out_of_order, predictions, stacked, n_predict, error, writes, warnings>>
    /\ PredictOnly

\* line 145: torch.stack([torch.concat(predictions, dim=0) for n in
\* range(n_samples)], dim=2); torch raises on an empty list of tensors
StackStep ==
    /\ pc = "stack"
    /\ IF n_samples = 0 \/ predictions = <<>>
       THEN /\ error' = "RuntimeError"
            /\ pc' = "aborted"
            /\ stacked' = stacked
       ELSE /\ stacked' = Stack([n \in 1..n_samples |-> Concat(predictions)])
            /\ pc' = "save"
            /\ error' = error
    /\ UNCHANGED <<catalog, n_samples, save_loc, batch_size, image_id_strs,
                   fetched, out_of_order, predictions, n_predict, writes, warnings>>
    /\ PredictOnly

\* lines 150-156: hand the array and the ids to the writer the suffix selects
Save ==
    /\ pc = "save"
    /\ writes' = Append(writes, [writer |-> Writer(save_loc), predictions |-> stacked,
                                 ids |-> image_id_strs, save_loc |-> save_loc])
    /\ warnings' = IF Warns(save_loc)
                   THEN Append(warnings, [msg |-> "Save format not recognised - assuming csv",
                                          save_loc |-> save_loc])
                   ELSE warnings
    /\ pc' = "done"
    /\ UNCHANGED <<catalog, n_samples, save_loc, batch_size, image_id_strs,
                   fetched, out_of_order, predictions, stacked, n_predict, error>>
    /\ PredictOnly

(***************************************************************************)
(* predictions_to_expectation_of_answer (predict_on_catalog.py:165-184)    *)
(***************************************************************************)

MaxStatRows == 1
MaxAlpha == 2
\* the test's predictions have three answer columns
NCols == 3

Min(a, b) == IF a < b THEN a ELSE b
Max(a, b) == IF a > b THEN a ELSE b

\* Python row[a:b] for 0 <= a, 0 <= b on a 1-based sequence
Slice(row, a, b) ==
    [j \in 1..Max(0, Min(b, Len(row)) - a) |-> row[a + j]]

RECURSIVE SeqSum(_)
\* ndarray.sum over the sliced columns of one row
SeqSum(q) == IF q = <<>> THEN 0 ELSE Head(q) + SeqSum(Tail(q))

QuestionColumnsExclusive(row, qi) == Slice(row, qi[1], qi[2])

\* line 182: predictions[:, question_indices[0]:question_indices[1]+1], one row
QuestionColumns(row, qi) == Slice(row, qi[1], qi[2] + 1)

\* lines 182-184 for one row: alpha_i / alpha_all, kept as an exact fraction
\* (a zero denominator is numpy's inf / nan, no exception is raised)
ExpectationOfRow(row, qi, ai) ==
    [num |-> row[ai + 1], den |-> SeqSum(QuestionColumns(row, qi))]

\* lines 165-184
predictions_to_expectation_of_answer(p, qi, ai) ==
    [r \in 1..Len(p) |-> ExpectationOfRow(p[r], qi, ai)]

StatsOnly == UNCHANGED <<getitem_vars, predict_vars, auth_vars>>

StatsIdle ==
    /\ spc = "idle" /\ st_predictions = <<>> /\ question_indices = <<0, 0>>
    /\ answer_index = 0 /\ expectations = <<>>

InitStats ==
    /\ spc = "start"
    /\ st_predictions \in UNION {[1..n -> [1..NCols -> 0..MaxAlpha]] : n \in 1..MaxStatRows}
    /\ question_indices \in (0..(NCols - 1)) \X (0..(NCols - 1))
    /\ answer_index \in 0..(NCols - 1)
    /\ expectations = <<>>

\* one call of predictions_to_expectation_of_answer
Expectation ==
    /\ spc = "start"
    /\ expectations' = predictions_to_expectation_of_answer(st_predictions, question_indices, answer_index)
    /\ spc' = "done"
    /\ UNCHANGED <<st_predictions, question_indices, answer_index>>
    /\ StatsOnly

(***************************************************************************)
(* bajor.main (main.py:24-44)                                              *)
(***************************************************************************)

Names == {"bajor", "admin", "guess"}
EnvNames == {"bajor", "admin"}
Environs == UNION {[S -> EnvNames] : S \in SUBSET {"BASIC_AUTH_USERNAME", "BASIC_AUTH_PASSWORD"}}
Jobs == {[manifest_path |-> "m1.csv", job_id |-> "None", scheduled |-> "None"],
         [manifest_path |-> "m2.csv", job_id |-> "j7", scheduled |-> "None"]}
NoJob == [manifest_path |-> "", job_id |-> "None", scheduled |-> "None"]
NoHttp == [status |-> 0, headers |-> [h \in {} |-> ""], job |-> NoJob, detail |-> ""]

\* os.environ.get(name, default)
EnvGet(env, name, default) == IF name \in DOMAIN env THEN env[name] ELSE default

\* secrets.compare_digest on two ASCII strings
compare_digest(a, b) == a = b

validate_either(env, cred) ==
    ~(~compare_digest(cred.username, EnvGet(env, "BASIC_AUTH_USERNAME", "bajor"))
      /\ ~compare_digest(cred.password, EnvGet(env, "BASIC_AUTH_PASSWORD", "bajor")))

\* lines 24-32
validate_basic_auth(env, cred) ==
    LET correct_username == compare_digest(cred.username, EnvGet(env, "BASIC_AUTH_USERNAME", "bajor"))
        correct_password == compare_digest(cred.password, EnvGet(env, "BASIC_AUTH_PASSWORD", "bajor"))
    IN IF ~(correct_username /\ correct_password) THEN FALSE ELSE TRUE

AuthOnly == UNCHANGED <<getitem_vars, predict_vars, stats_vars>>

AuthIdle ==
    /\ apc = "idle" /\ environ = [h \in {} |-> ""]
    /\ credentials = [username |-> "", password |-> ""]
    /\ job = NoJob /\ authorized = FALSE /\ http_response = NoHttp

InitAuth ==
    /\ apc = "request"
    /\ environ \in Environs
    /\ credentials \in [username : Names, password : Names]
    /\ job \in Jobs
    /\ authorized = FALSE
    /\ http_response = NoHttp

\* the Depends(validate_basic_auth) dependency of POST /jobs/
ValidateBasicAuth ==
    /\ apc = "request"
    /\ authorized' = validate_basic_auth(environ, credentials)
    /\ apc' = "handler"
    /\ UNCHANGED <<environ, credentials, job, http_response>>
    /\ AuthOnly

\* lines 34-44: schedule_job
ScheduleJob ==
    /\ apc = "handler"
    /\ http_response' =
          IF ~authorized
          THEN [status |-> 401, headers |-> [h \in {"WWW-Authenticate"} |-> "Basic"],
                job |-> NoJob, detail |-> "Incorrect username or password"]
          ELSE [status |-> 201, headers |-> [h \in {} |-> ""], job |-> job, detail |-> ""]
    /\ apc' = "responded"
    /\ UNCHANGED <<environ, credentials, job, authorized>>
    /\ AuthOnly

(***************************************************************************)
(* Specifications                                                          *)
(***************************************************************************)

InitG == InitGetItem /\ PredictIdle /\ StatsIdle /\ AuthIdle
NextG ==
    \/ Enter
    \/ \E kind \in TransientErrors : SendError(kind)
    \/ \E r \in Responses : SendRetried(r)
    \/ \E r \in Responses : SendResponse(r)
    \/ RaiseForStatus
    \/ ContentType
    \/ DecodeStep
    \/ Except
    \/ Reraise
    \/ TransformReturn
SpecGetItem == InitG /\ [][NextG]_vars

InitP == InitPredict /\ GetItemIdle /\ StatsIdle /\ AuthIdle
NextP ==
    \/ Begin
    \/ \E i \in 1..Len(catalog), out \in {"ok"} \cup AccessErrors : AccessRow(i, out)
    \/ PredictStep
    \/ PredictAbort
    \/ PredictReturn
    \/ StackStep
    \/ Save
SpecPredict == InitP /\ [][NextP]_vars

InitS == InitStats /\ GetItemIdle /\ PredictIdle /\ AuthIdle
NextS == Expectation
SpecStats == InitS /\ [][NextS]_vars

InitA == InitAuth /\ GetItemIdle /\ PredictIdle /\ StatsIdle
NextA == ValidateBasicAuth \/ ScheduleJob
SpecAuth == InitA /\ [][NextA]_vars

(***************************************************************************)
(* Properties                                                              *)
(***************************************************************************)

TransientCount == Cardinality({j \in 1..Len(sent) : sent[j].kind \in TransientErrors})
OnlyTransientBefore(i) == \A j \in 1..(i - 1) : sent[j].kind \in TransientErrors
AfterGet == {"raise_for_status", "content_type", "decode", "transform",
             "except", "reraise", "raised", "returned"}

\* C1 (as claimed): a response with a 4xx/5xx status ends the fetch at once:
\* it is the last request of the access (so it is the only one when nothing
\* failed in transit before it), session.get has returned it, and the retry
\* budget has been spent on transient failures only.
C1_FastFail ==
    \A i \in 1..Len(sent) :
        (sent[i].kind \in {"response", "retried_response"} /\ IsErrorStatus(sent[i].status)) =>
            /\ i = Len(sent)
            /\ gpc \in AfterGet
            /\ retries - retry.total = TransientCount

\* C4 (as claimed): a fetch that failed transiently `retries` times or more
\* never gets a response back.
C4_RaisesAtBound ==
    \A i \in 1..Len(sent) :
        (sent[i].kind = "response" /\ OnlyTransientBefore(i)) => i - 1 < retries

\* C4 (amended): with only transient failures on the wire, the session keeps
\* sending while at most `retries` requests have failed, so a response that
\* arrives after k <= retries failures is returned; the fetch failure is
\* raised by the failure number retries + 1 and by no earlier one.
C4_RetryBound ==
    /\ \A i \in 1..Len(sent) :
          (sent[i].kind = "response" /\ OnlyTransientBefore(i)) => i - 1 <= retries
    /\ (gpc # "start" /\ OnlyTransientBefore(Len(sent) + 1) /\ Len(sent) <= retries) =>
          (gpc = "get" /\ exc = NoExc)
    /\ (OnlyTransientBefore(Len(sent) + 1) /\ Len(sent) > retries) =>
          (Len(sent) = retries + 1 /\ exc = [type |-> "ConnectionError", at |-> "get"]
           /\ response = NoResponse /\ gpc \in {"except", "reraise", "raised"})

\* C4 witness: three transient failures, then the fourth request is answered
\* and its response returned
C4_Witness ==
    /\ Len(sent) = retries + 1
    /\ OnlyTransientBefore(retries + 1)
    /\ sent[retries + 1] = [kind |-> "response", status |-> 200]
    /\ response.status = 200
    /\ gpc = "returned"

\* C6: once the decode step has run, the decoder is Image.open exactly when
\* the content-type header is the string image/png and decode_jpeg for any
\* other header value; the step ends either with the image decoded from the
\* response body or with an exception in flight and no image, never with a
\* substitute.
C6_Dispatch ==
    decoder # "none" =>
        /\ "content-type" \in DOMAIN response.headers
        /\ decoder \in {"Image.open", "decode_jpeg"}
        /\ (decoder = "Image.open") <=> (response.headers["content-type"] = "image/png")
        /\ \/ /\ exc = NoExc
              /\ image.src = url /\ image.format = response.body
              /\ (decoder = "decode_jpeg" => response.body = "jpeg")
           \/ /\ exc.at = "decode"
              /\ image = NoImage /\ returned = NoPair
              /\ gpc \in {"except", "reraise", "raised"}

\* C6 witness: a header that merely starts with image/png went to the JPEG
\* decoder and the access returned
C6_Witness ==
    /\ gpc = "returned"
    /\ decoder = "decode_jpeg"
    /\ response.headers["content-type"] = "image/png; charset=binary"

RaisedRows == {i \in 1..Len(fetched) : fetched[i].kind = "raise"}
FirstRaised == CHOOSE i \in RaisedRows : \A j \in RaisedRows : i <= j

\* C2: once a dataset access has failed, predict never writes: no batch at or
\* after the failed row's batch is ever appended, the run can only end
\* aborted with that access's exception, and no writer is invoked.
C2_AbortNoWrite ==
    RaisedRows # {} =>
        /\ writes = <<>>
        /\ stacked = <<>>
        /\ pc \in {"predict", "aborted"}
        /\ Len(predictions) < BatchOf(FirstRaised, batch_size)
        /\ pc = "aborted" => error = fetched[FirstRaised].exc

\* C2 witness: the one-row catalog whose only access raised the HTTPError of
\* a 500 response, the run aborted
C2_Witness ==
    /\ pc = "aborted"
    /\ Len(catalog) = 1
    /\ fetched[1].kind = "raise" /\ fetched[1].exc = "HTTPError"
    /\ error = "HTTPError"

\* C3: on a completed run the ids handed to the writer are the catalog's
\* subject_id column in catalog order, and row i of the array is the model's
\* output for the image of catalog row i, in every sample slice, whatever the
\* order in which the accesses finished.
C3_RowOrder ==
    pc = "done" =>
        LET w == writes[1]
        IN /\ Len(w.ids) = Len(catalog)
           /\ \A i \in 1..Len(catalog) : w.ids[i] = catalog[i].subject_id
           /\ Len(w.predictions) = Len(catalog)
           /\ \A i \in 1..Len(catalog) : \A a \in 1..NAnswers : \A k \in 1..n_samples :
                 w.predictions[i][a][k] = 10 * Pixels(catalog[i].image_url) + a

\* C3 witness: a two-row run, one row per batch, in which the second row's
\* access finished first
C3_Witness ==
    /\ pc = "done"
    /\ out_of_order
    /\ Len(catalog) = 2
    /\ catalog[1].subject_id = 103 /\ catalog[2].subject_id = 101

LastChars(s, n) == IF Len(s) >= n THEN [j \in 1..n |-> s[Len(s) - n + j]] ELSE <<>>

\* C5: a writer is invoked only as the last step of a successful run, once;
\* it is the HDF5 writer when save_loc ends in .hdf5 (and not in .csv), the
\* CSV writer otherwise, and the warning is logged exactly when save_loc ends
\* in neither.
C5_OneWriter ==
    /\ Len(writes) <= 1
    /\ pc # "done" => writes = <<>> /\ warnings = <<>>
    /\ pc = "done" =>
          /\ Len(writes) = 1
          /\ writes[1].save_loc = save_loc
          /\ LET csv == LastChars(save_loc, 4) = <<".", "c", "s", "v">>
                 hdf5 == LastChars(save_loc, 5) = <<".", "h", "d", "f", "5">>
             IN /\ csv => writes[1].writer = "predictions_to_csv" /\ warnings = <<>>
                /\ hdf5 => writes[1].writer = "predictions_to_hdf5" /\ warnings = <<>>
                /\ (~csv /\ ~hdf5) =>
                      /\ writes[1].writer = "predictions_to_csv"
                      /\ Len(warnings) = 1 /\ warnings[1].save_loc = save_loc

\* C5 witness: an unrecognised suffix, one warning, the CSV writer
C5_Witness ==
    /\ pc = "done"
    /\ save_loc = <<"o", ".", "t", "x", "t">>
    /\ Len(warnings) = 1
    /\ writes[1].writer = "predictions_to_csv"

RECURSIVE ColSum(_, _)
ColSum(row, cols) ==
    IF cols = {} THEN 0
    ELSE LET c == CHOOSE x \in cols : TRUE IN row[c + 1] + ColSum(row, cols \ {c})

\* C8: each row's expectation is predictions[row, answer_index] over the sum
\* of predictions[row, start_index..end_index], end_index included; when
\* start_index <= answer_index <= end_index and that sum is positive the
\* quotient lies in [0, 1].
C8_Expectation ==
    spc = "done" =>
        /\ Len(expectations) = Len(st_predictions)
        /\ \A r \in 1..Len(st_predictions) :
              LET e == expectations[r]
                  start_index == question_indices[1]
                  end_index == question_indices[2]
              IN /\ e.num = st_predictions[r][answer_index + 1]
                 /\ e.den = ColSum(st_predictions[r], start_index..end_index)
                 /\ (start_index <= answer_index /\ answer_index <= end_index /\ e.den > 0) =>
                       (0 <= e.num /\ e.num <= e.den)

\* C8 witness: the answer is the question's last column and carries all of
\* the question's mass, so the expectation is exactly 1
C8_Witness ==
    /\ spc = "done"
    /\ question_indices = <<0, 2>>
    /\ answer_index = 2
    /\ expectations[1] = [num |-> 2, den |-> 2]

ConfiguredUsername ==
    IF "BASIC_AUTH_USERNAME" \in DOMAIN environ THEN environ["BASIC_AUTH_USERNAME"] ELSE "bajor"
ConfiguredPassword ==
    IF "BASIC_AUTH_PASSWORD" \in DOMAIN environ THEN environ["BASIC_AUTH_PASSWORD"] ELSE "bajor"

\* C9: the response to POST /jobs/ is 201 with the submitted job exactly
\* when the username and the password both equal the configured ones;
\* otherwise it is 401 with the WWW-Authenticate header and without the job.
C9_Auth ==
    apc = "responded" =>
        LET both == credentials.username = ConfiguredUsername
                    /\ credentials.password = ConfiguredPassword
        IN /\ both => (http_response.status = 201 /\ http_response.job = job)
           /\ ~both =>
                 /\ http_response.status = 401
                 /\ DOMAIN http_response.headers = {"WWW-Authenticate"}
                 /\ http_response.headers["WWW-Authenticate"] = "Basic"
                 /\ http_response.job = NoJob

\* C9 witness: the right username with a wrong password is refused
C9_Witness ==
    /\ apc = "responded"
    /\ credentials.username = ConfiguredUsername
    /\ credentials.password # ConfiguredPassword
    /\ http_response.status = 401

====
